---- MODULE Spec2Model ----
(***************************************************************************)
(* Model of aw_export_daily_report/timeline_analyzer.py: TimelineAnalyzer. *)
(*                                                                         *)
(* Instants are integer seconds counted from midnight of day 0.  A block's *)
(* start_time / end_time are '%H:%M' strings in the code; they are kept as *)
(* the minute of the day (HHMM), so the seconds and the date are lost as   *)
(* strftime loses them.  start_time_utc / end_time_utc are isoformat       *)
(* strings that fromisoformat reads back exactly; they are kept as the     *)
(* instant, None for a missing key.  Percentages carry one decimal and are *)
(* kept in tenths of a percent (100.0 is 1000).                            *)
(*                                                                         *)
(* The per-group fragment lists ('events') and the per-group               *)
(* start_time_utc / end_time_utc are display data that no pass reads back; *)
(* they are left out of the records.                                       *)
(*                                                                         *)
(* Model of aw_export_daily_report/config.py: SettingsManager.  The class  *)
(* attribute DEFAULT_SETTINGS is one mutable dict shared by all managers   *)
(* of the process; it is a variable.  Settings dicts are functions on      *)
(* their keys.  The settings files are kept per config path.               *)
(***************************************************************************)
EXTENDS Integers, Sequences, FiniteSets, TLC

\* ------------------------------------------------------------------------
\* Program constants
\* ------------------------------------------------------------------------
BLOCK_SIZE_MINUTES == 15
MIN_ACTIVITY_SECONDS == 5
AFK_THRESHOLD_SECONDS == 120
MIN_GROUP_SECONDS == 60
SIGNIFICANCE_TENTHS == 100
DAY_START_HOUR == 6
DAY_END_HOUR == 21
SECONDS_PER_DAY == 86400
SECONDS_PER_HOUR == 3600
SECONDS_PER_MINUTE == 60
FULL_PERCENT_TENTHS == 1000

BROWSERS ==
  {"Google Chrome", "Comet", "Safari", "Firefox", "Arc", "Brave", "Microsoft Edge"}

EDITORS ==
  {"Cursor", "Code", "Visual Studio Code", "Xcode", "PyCharm", "IntelliJ IDEA", "Sublime Text"}

\* Python None for an instant, and for a missing *_utc key of a block
None == -1

\* Python None returned by _analyze_block
NoBlock == [is_none |-> TRUE]

\* ------------------------------------------------------------------------
\* Bounds of the checked input space
\* ------------------------------------------------------------------------
MaxEvents == 2
MaxStartSlot == 2
MaxSlotEvents == 3
MaxConfigPaths == 2

\* ------------------------------------------------------------------------
\* Helpers
\* ------------------------------------------------------------------------
Max(a, b) == IF a >= b THEN a ELSE b

Min(a, b) == IF a <= b THEN a ELSE b

\* sum(f[i] for i in 1..n)
RECURSIVE SumTo(_, _)
SumTo(f, n) == IF n = 0 THEN 0 ELSE f[n] + SumTo(f, n - 1)

SumSeq(s) == SumTo(s, Len(s))

\* first occurrences of a sequence, in order (insertion order of a dict)
RECURSIVE Dedupe(_)
Dedupe(s) ==
  IF s = << >> THEN << >>
  ELSE LET front == Dedupe(SubSeq(s, 1, Len(s) - 1))
           x == s[Len(s)]
       IN IF \E i \in 1..Len(front) : front[i] = x THEN front ELSE Append(front, x)

\* concatenation of a sequence of sequences
RECURSIVE Flatten(_)
Flatten(ss) == IF ss = << >> THEN << >> ELSE Head(ss) \o Flatten(Tail(ss))

\* sorted(..., key=duration, reverse=True): stable, descending by duration
InsertDesc(sorted, x) ==
  LET n == Cardinality({i \in 1..Len(sorted) : sorted[i].duration >= x.duration})
  IN SubSeq(sorted, 1, n) \o <<x>> \o SubSeq(sorted, n + 1, Len(sorted))

RECURSIVE SortDesc(_)
SortDesc(s) ==
  IF s = << >> THEN << >>
  ELSE InsertDesc(SortDesc(SubSeq(s, 1, Len(s) - 1)), s[Len(s)])

\* round(x, 1) of (num / den * 100), in tenths of a percent (ties to even)
RoundTenths(num, den) ==
  LET a == num * 1000
      q == a \div den
      r == a % den
  IN IF 2 * r < den THEN q
     ELSE IF 2 * r > den THEN q + 1
     ELSE IF q % 2 = 0 THEN q ELSE q + 1

\* strftime('%H:%M'): the minute of the day, seconds and date dropped
HHMM(t) == (t % SECONDS_PER_DAY) \div SECONDS_PER_MINUTE

\* datetime.hour
HourOf(t) == (t % SECONDS_PER_DAY) \div SECONDS_PER_HOUR

\* dt.replace(hour=h, minute=0, second=0, microsecond=0)
ReplaceHour(t, h) == (t \div SECONDS_PER_DAY) * SECONDS_PER_DAY + h * SECONDS_PER_HOUR

\* ------------------------------------------------------------------------
\* Event Filter and day window
\* ------------------------------------------------------------------------
\* a filter condition that drops AFK events only above 120 seconds
IsActiveEvent_above_threshold(event) ==
  /\ ~(event.afk /\ event.duration > AFK_THRESHOLD_SECONDS)
  /\ event.app # "loginwindow"
  /\ event.duration >= MIN_ACTIVITY_SECONDS

\* the condition of the comprehension in _filter_active_events
IsActiveEvent(event) ==
  /\ ~(event.afk /\ event.duration >= AFK_THRESHOLD_SECONDS)
  /\ event.app # "loginwindow"
  /\ event.duration >= MIN_ACTIVITY_SECONDS

\* a filter that keeps every event
filter_active_events_off(evs) == evs

filter_active_events(evs) == SelectSeq(evs, IsActiveEvent)

\* min(timestamps)
Earliest(evs) ==
  CHOOSE t \in {evs[i].timestamp : i \in 1..Len(evs)} :
    \A i \in 1..Len(evs) : t <= evs[i].timestamp

\* a day window that ends one hour late, at 22:00
get_day_boundaries_late(evs) ==
  <<ReplaceHour(Earliest(evs), DAY_START_HOUR), ReplaceHour(Earliest(evs), DAY_END_HOUR + 1)>>

\* _get_day_boundaries: <<day_start, day_end>>
get_day_boundaries(evs) ==
  <<ReplaceHour(Earliest(evs), DAY_START_HOUR), ReplaceHour(Earliest(evs), DAY_END_HOUR)>>

\* timedelta(minutes=BLOCK_SIZE_MINUTES) in seconds
block_duration == BLOCK_SIZE_MINUTES * SECONDS_PER_MINUTE

\* ------------------------------------------------------------------------
\* Block Segmenter: the events of one slot
\* ------------------------------------------------------------------------
\* an overlap that is the event's full duration
OverlapDuration_full(event, block_start, block_end) == event.duration

\* overlap of one event with [block_start, block_end)
OverlapDuration(event, block_start, block_end) ==
  Min(event.timestamp + event.duration, block_end) - Max(event.timestamp, block_start)

Overlaps(event, block_start, block_end) ==
  /\ event.timestamp < block_end
  /\ event.timestamp + event.duration > block_start
  /\ OverlapDuration(event, block_start, block_end) > 0

\* _get_events_in_block: the overlapping events, each with its block_duration
RECURSIVE get_events_in_block(_, _, _)
get_events_in_block(block_start, block_end, evs) ==
  IF evs = << >> THEN << >>
  ELSE LET event == Head(evs)
           rest == get_events_in_block(block_start, block_end, Tail(evs))
       IN IF Overlaps(event, block_start, block_end)
          THEN <<[app |-> event.app, title |-> event.title,
                  timestamp |-> event.timestamp, duration |-> event.duration,
                  afk |-> event.afk,
                  block_duration |-> OverlapDuration(event, block_start, block_end)]>>
               \o rest
          ELSE rest

\* ------------------------------------------------------------------------
\* Block Analyzer
\* ------------------------------------------------------------------------
\* keys of app_groups in insertion order
AppOrder(block_events) == Dedupe([i \in 1..Len(block_events) |-> block_events[i].app])

\* activity_key = f"{app}:{title}"
activity_key(app, title) == app \o ":" \o title

\* display_name: f"{app} - {title}", or the app alone for an empty title
display_name(app, title) == IF title # "" THEN app \o " - " \o title ELSE app

\* the events in the order the two nested loops visit them: app by app in
\* app_groups order, and within an app in event order
GroupedEvents(block_events) ==
  LET apps == AppOrder(block_events)
      EventsOf(a) ==
        LET IsApp(e) == e.app = a
        IN SelectSeq(block_events, IsApp)
  IN Flatten([k \in 1..Len(apps) |-> EventsOf(apps[k])])

\* keys of activity_times in insertion order
ActivityKeys(block_events) ==
  LET visited == GroupedEvents(block_events)
  IN Dedupe([i \in 1..Len(visited) |-> activity_key(visited[i].app, visited[i].title)])

\* activity_times[key]['duration']: the summed block_duration of the group
GroupDuration(block_events, key) ==
  SumSeq([i \in 1..Len(block_events) |->
            IF activity_key(block_events[i].app, block_events[i].title) = key
            THEN block_events[i].block_duration ELSE 0])

\* one entry of activity_times: app, primary_window and display_name are
\* those of the last event visited under the key, windows collects the
\* non-empty titles
Group(block_events, key) ==
  LET HasKey(e) == activity_key(e.app, e.title) = key
      members == SelectSeq(GroupedEvents(block_events), HasKey)
      last == members[Len(members)]
  IN [app |-> last.app,
      primary_window |-> last.title,
      display_name |-> display_name(last.app, last.title),
      windows |-> {members[i].title : i \in 1..Len(members)} \ {""},
      duration |-> GroupDuration(block_events, key)]

\* the groups of at least 60 seconds, largest first
sorted_activities(block_events) ==
  LET keys == ActivityKeys(block_events)
      groups == [i \in 1..Len(keys) |-> Group(block_events, keys[i])]
      Survives(g) == g.duration >= MIN_GROUP_SECONDS
  IN SortDesc(SelectSeq(groups, Survives))

\* 'percentage' of the main activity of a raw block
Percentage(main_duration, timeline_duration) ==
  IF timeline_duration > 0 THEN RoundTenths(main_duration, timeline_duration) ELSE 0

\* one supporting entry of a raw block
SupportingOf(data) ==
  [app |-> data.display_name, windows |-> data.windows, duration |-> data.duration]

\* _analyze_block: one block, or NoBlock
analyze_block(block_start, block_end, block_events) ==
  LET timeline_duration == block_end - block_start
      sorted == sorted_activities(block_events)
      main_data == sorted[1]
  IN IF sorted = << >> THEN NoBlock
     ELSE [start_time |-> HHMM(block_start),
           end_time |-> HHMM(block_end),
           start_time_utc |-> block_start,
           end_time_utc |-> block_end,
           duration |-> timeline_duration,
           is_afk |-> FALSE,
           main_activity |->
             [app |-> main_data.display_name,
              raw_app |-> main_data.app,
              primary_window |-> main_data.primary_window,
              windows |-> main_data.windows,
              duration |-> main_data.duration,
              percentage |-> Percentage(main_data.duration, timeline_duration)],
           supporting_activities |->
             [i \in 1..(Len(sorted) - 1) |-> SupportingOf(sorted[i + 1])]]

\* the synthetic idle main activity of an AFK block
IdleActivity(duration) ==
  [app |-> "AFK / Inactive",
   raw_app |-> "AFK",
   primary_window |-> "",
   windows |-> {},
   duration |-> duration,
   percentage |-> FULL_PERCENT_TENTHS]

\* the AFK block the segmenter inserts for the gap [gap_start, gap_end)
afk_block(gap_start, gap_end) ==
  [start_time |-> HHMM(gap_start),
   end_time |-> HHMM(gap_end),
   start_time_utc |-> None,
   end_time_utc |-> None,
   duration |-> gap_end - gap_start,
   is_afk |-> TRUE,
   main_activity |-> IdleActivity(gap_end - gap_start),
   supporting_activities |-> << >>]

\* the guard of the gap block: a block was produced before and ended earlier
GapBefore(last_end, slot_start) == last_end # None /\ slot_start > last_end

\* one iteration of the while loop of _create_time_blocks:
\* <<blocks, last_active_block_end>> after the slot starting at slot_start
SlotStep(evs, slot_start, blks, last_end) ==
  LET block_end == slot_start + block_duration
      block_events == get_events_in_block(slot_start, block_end, evs)
      with_gap == IF GapBefore(last_end, slot_start)
                  THEN Append(blks, afk_block(last_end, slot_start))
                  ELSE blks
      block_data == analyze_block(slot_start, block_end, block_events)
  IN IF block_events = << >> THEN <<blks, last_end>>
     ELSE IF block_data = NoBlock THEN <<with_gap, last_end>>
     ELSE <<Append(with_gap, block_data), block_end>>

\* ------------------------------------------------------------------------
\* Block Merger
\* ------------------------------------------------------------------------
\* _same_main_windows
same_main_windows(block1, block2) ==
  LET windows1 == block1.main_activity.windows
      windows2 == block2.main_activity.windows
  IN IF windows1 = {} \/ windows2 = {} THEN TRUE
     ELSE Cardinality(windows1 \cap windows2) > 0

\* same_activity that compares the app alone, whatever the app
same_activity_app_only(current, next) ==
  current.main_activity.raw_app = next.main_activity.raw_app

\* same_activity of pass 1
same_activity(current, next) ==
  LET current_raw_app == current.main_activity.raw_app
      next_raw_app == next.main_activity.raw_app
      current_primary == current.main_activity.primary_window
      next_primary == next.main_activity.primary_window
  IN IF current_raw_app \in (BROWSERS \cup EDITORS)
     THEN current_raw_app = next_raw_app /\ current_primary = next_primary
     ELSE current_raw_app = next_raw_app

\* a consolidation that leaves the groups in first-seen order
consolidate_supporting_unsorted(blks) ==
  LET entries == Flatten([i \in 1..Len(blks) |-> blks[i].supporting_activities])
      labels == Dedupe([i \in 1..Len(entries) |-> entries[i].app])
      DurationOf(app) ==
        SumSeq([i \in 1..Len(entries) |->
                  IF entries[i].app = app THEN entries[i].duration ELSE 0])
      WindowsOf(app) ==
        UNION {entries[i].windows : i \in {j \in 1..Len(entries) : entries[j].app = app}}
  IN [k \in 1..Len(labels) |->
        [app |-> labels[k],
         windows |-> WindowsOf(labels[k]),
         duration |-> DurationOf(labels[k])]]

\* _consolidate_supporting: group by label in first-seen order, sum the
\* durations, union the windows, largest first
consolidate_supporting(blks) ==
  LET entries == Flatten([i \in 1..Len(blks) |-> blks[i].supporting_activities])
      labels == Dedupe([i \in 1..Len(entries) |-> entries[i].app])
      DurationOf(app) ==
        SumSeq([i \in 1..Len(entries) |->
                  IF entries[i].app = app THEN entries[i].duration ELSE 0])
      WindowsOf(app) ==
        UNION {entries[i].windows : i \in {j \in 1..Len(entries) : entries[j].app = app}}
  IN SortDesc([k \in 1..Len(labels) |->
                 [app |-> labels[k],
                  windows |-> WindowsOf(labels[k]),
                  duration |-> DurationOf(labels[k])]])

\* block.copy() followed by the consolidation of its own supporting list
StartAccumulator(block) ==
  [block EXCEPT !.supporting_activities = consolidate_supporting(<<block>>)]

\* the end instant a merge gives the accumulator: next's end, capped at 21:00
CappedEnd(end_dt) ==
  IF HourOf(end_dt) >= DAY_END_HOUR THEN ReplaceHour(end_dt, DAY_END_HOUR) ELSE end_dt

\* the end_time a merge gives the accumulator
MergedEndTime(next) ==
  IF HourOf(next.end_time_utc) >= DAY_END_HOUR
  THEN HHMM(ReplaceHour(next.end_time_utc, DAY_END_HOUR))
  ELSE next.end_time

\* 'percentage' of the accumulator after a merge: the code leaves it alone
MergedPercentage(current, next) == current.main_activity.percentage

\* a match branch that extends the span and leaves main_activity.duration alone
MergeInto_span_only(current, next) ==
  LET extended ==
        [current EXCEPT
           !.end_time = MergedEndTime(next),
           !.end_time_utc = CappedEnd(next.end_time_utc),
           !.duration = CappedEnd(next.end_time_utc) - current.start_time_utc]
  IN [extended EXCEPT
        !.supporting_activities = consolidate_supporting(<<extended, next>>)]

\* the match branch of pass 1: current extended by next
MergeInto(current, next) ==
  LET extended ==
        [current EXCEPT
           !.end_time = MergedEndTime(next),
           !.end_time_utc = CappedEnd(next.end_time_utc),
           !.duration = CappedEnd(next.end_time_utc) - current.start_time_utc,
           !.main_activity.duration = @ + next.main_activity.duration,
           !.main_activity.percentage = MergedPercentage(current, next)]
  IN [extended EXCEPT
        !.supporting_activities = consolidate_supporting(<<extended, next>>)]

\* the test of pass 1 without its AFK check
Matches_ignoring_afk(current, next) ==
  /\ same_activity(current, next)
  /\ same_main_windows(current, next)

\* the test of pass 1 that extends the accumulator
Matches(current, next) ==
  /\ ~current.is_afk
  /\ ~next.is_afk
  /\ same_activity(current, next)
  /\ same_main_windows(current, next)

\* pass 1b left out: every block passes
significance_filter_off(block) == block

\* pass 1b whose idle activity keeps the duration of the activity it replaces
significance_filter_keeps_duration(block) ==
  IF block.is_afk THEN block
  ELSE IF block.main_activity.percentage >= SIGNIFICANCE_TENTHS THEN block
  ELSE [block EXCEPT
          !.is_afk = TRUE,
          !.main_activity = IdleActivity(block.main_activity.duration),
          !.supporting_activities = << >>]

\* pass 1b on one block
significance_filter(block) ==
  IF block.is_afk THEN block
  ELSE IF block.main_activity.percentage >= SIGNIFICANCE_TENTHS THEN block
  ELSE [block EXCEPT
          !.is_afk = TRUE,
          !.main_activity = IdleActivity(block.duration),
          !.supporting_activities = << >>]

\* pass 2, extending the pending AFK block by the next AFK block
ExtendAfk(current_afk, block) ==
  [current_afk EXCEPT
     !.end_time = block.end_time,
     !.end_time_utc = IF block.end_time_utc # None THEN block.end_time_utc ELSE @,
     !.duration = @ + block.duration]

\* pass 2 left out: the filtered sequence is returned as it is
coalesce_afk_skipped(blks, i, final_merged, current_afk) == blks

\* pass 2 that flushes the pending AFK block as soon as it was extended once
RECURSIVE coalesce_afk_pairs(_, _, _, _)
coalesce_afk_pairs(blks, i, final_merged, current_afk) ==
  IF i > Len(blks)
  THEN IF current_afk # NoBlock THEN Append(final_merged, current_afk) ELSE final_merged
  ELSE LET block == blks[i]
       IN IF block.is_afk
          THEN IF current_afk = NoBlock
               THEN coalesce_afk_pairs(blks, i + 1, final_merged, block)
               ELSE coalesce_afk_pairs(blks, i + 1,
                                       Append(final_merged, ExtendAfk(current_afk, block)),
                                       NoBlock)
          ELSE IF current_afk # NoBlock
               THEN coalesce_afk_pairs(blks, i + 1,
                                       Append(Append(final_merged, current_afk), block),
                                       NoBlock)
               ELSE coalesce_afk_pairs(blks, i + 1, Append(final_merged, block), NoBlock)

\* pass 2 from position i on, with the output so far and the pending AFK
\* block (NoBlock for None)
RECURSIVE coalesce_afk(_, _, _, _)
coalesce_afk(blks, i, final_merged, current_afk) ==
  IF i > Len(blks)
  THEN IF current_afk # NoBlock THEN Append(final_merged, current_afk) ELSE final_merged
  ELSE LET block == blks[i]
       IN IF block.is_afk
          THEN IF current_afk = NoBlock
               THEN coalesce_afk(blks, i + 1, final_merged, block)
               ELSE coalesce_afk(blks, i + 1, final_merged, ExtendAfk(current_afk, block))
          ELSE IF current_afk # NoBlock
               THEN coalesce_afk(blks, i + 1, Append(Append(final_merged, current_afk), block), NoBlock)
               ELSE coalesce_afk(blks, i + 1, Append(final_merged, block), NoBlock)

\* step 5 of analyze
total_time(blks) == SumSeq([i \in 1..Len(blks) |-> blks[i].duration])

\* ------------------------------------------------------------------------
\* Checked inputs: time-ordered event lists of at most MaxEvents events
\* ------------------------------------------------------------------------
Ev(ts, dur, app, title, afk) ==
  [timestamp |-> ts, duration |-> dur, app |-> app, title |-> title, afk |-> afk]

\* start of the k-th slot of the day window of day 0
SlotStart(k) == DAY_START_HOUR * SECONDS_PER_HOUR + k * block_duration

\* app, title, duration of the events placed at a slot start
CoreShapes ==
  {<<"Terminal", "zsh", 900>>, <<"Terminal", "zsh", 1200>>, <<"Terminal", "zsh", 60>>,
   <<"Terminal", "zsh", 30>>, <<"Terminal", "", 900>>, <<"Terminal", "vim", 900>>,
   <<"Google Chrome", "Inbox", 900>>, <<"Google Chrome", "", 900>>,
   <<"Google Chrome", "Docs", 900>>}

CoreEvents ==
  {Ev(SlotStart(k), sh[3], sh[1], sh[2], FALSE) : k \in 0..MaxStartSlot, sh \in CoreShapes}

\* events that straddle slot boundaries with 60 or 30 seconds in their first slot
StraddlingEvents ==
  {Ev(SlotStart(MaxStartSlot) + 840, 1200, "Terminal", "zsh", FALSE),
   Ev(SlotStart(MaxStartSlot) + 870, 1200, "Terminal", "zsh", FALSE),
   Ev(SlotStart(MaxStartSlot) + 870, 60, "Terminal", "zsh", FALSE)}

\* events the Event Filter is about
FilterEvents ==
  {Ev(SlotStart(0), 900, "loginwindow", "", FALSE),
   Ev(SlotStart(0), 130, "Terminal", "zsh", TRUE),
   Ev(SlotStart(0), 60, "Terminal", "zsh", TRUE),
   Ev(SlotStart(0), 4, "Terminal", "zsh", FALSE),
   Ev(SlotStart(0), 120, "Terminal", "zsh", TRUE),
   Ev(SlotStart(0), 119, "Terminal", "zsh", TRUE),
   Ev(SlotStart(0), 5, "Terminal", "zsh", FALSE)}

\* events that cross 06:00 and 21:00
EdgeEvents ==
  {Ev(DAY_START_HOUR * SECONDS_PER_HOUR - 600, 1200, "Terminal", "zsh", FALSE),
   Ev(DAY_END_HOUR * SECONDS_PER_HOUR - block_duration, 1200, "Terminal", "zsh", FALSE),
   Ev(DAY_END_HOUR * SECONDS_PER_HOUR - 2 * block_duration, 2400, "Terminal", "zsh", FALSE)}

EventOptions == CoreEvents \cup StraddlingEvents \cup FilterEvents \cup EdgeEvents

RECURSIVE EventLists(_)
EventLists(n) ==
  IF n = 0 THEN {<< >>}
  ELSE LET shorter == EventLists(n - 1)
       IN shorter \cup
          {Append(s, e) : s \in {t \in shorter : Len(t) = n - 1},
                          e \in EventOptions}

TimeOrdered(s) == \A i \in 1..(Len(s) - 1) : s[i].timestamp <= s[i + 1].timestamp

Inputs == {s \in EventLists(MaxEvents) : TimeOrdered(s)}

\* ------------------------------------------------------------------------
\* config.py: SettingsManager.  A dict is a function on its keys; a key that
\* is missing is missing from the DOMAIN.
\* ------------------------------------------------------------------------
EmptyDict == << >>

\* key in d
Has(d, key) == key \in DOMAIN d

\* d.get(key, default)
Get(d, key, default) == IF key \in DOMAIN d THEN d[key] ELSE default

\* d with d[key] = value
Put(d, key, value) ==
  [k \in DOMAIN d \cup {key} |-> IF k = key THEN value ELSE d[k]]

\* d after d.update(u)
dict_update(d, u) ==
  [k \in DOMAIN d \cup DOMAIN u |-> IF k \in DOMAIN u THEN u[k] ELSE d[k]]

\* the characters of the strings that reach the validators
Characters(str) ==
  CASE str = "" -> << >>
    [] str = "a@b.co" -> <<"a", "@", "b", ".", "c", "o">>
    [] str = "a@b.co\n" -> <<"a", "@", "b", ".", "c", "o", "\n">>
    [] str = "nobody" -> <<"n", "o", "b", "o", "d", "y">>
    [] str = "a@b.c" -> <<"a", "@", "b", ".", "c">>
    [] str = "09:00" -> <<"0", "9", ":", "0", "0">>
    [] str = "18:00" -> <<"1", "8", ":", "0", "0">>
    [] str = "23:59" -> <<"2", "3", ":", "5", "9">>
    [] str = "24:00" -> <<"2", "4", ":", "0", "0">>
    [] str = "9:00" -> <<"9", ":", "0", "0">>
    [] str = "09:00\n" -> <<"0", "9", ":", "0", "0", "\n">>

LowerCase ==
  {"a", "b", "c", "d", "e", "f", "g", "h", "i", "j", "k", "l", "m",
   "n", "o", "p", "q", "r", "s", "t", "u", "v", "w", "x", "y", "z"}

UpperCase ==
  {"A", "B", "C", "D", "E", "F", "G", "H", "I", "J", "K", "L", "M",
   "N", "O", "P", "Q", "R", "S", "T", "U", "V", "W", "X", "Y", "Z"}

Digits == {"0", "1", "2", "3", "4", "5", "6", "7", "8", "9"}

AllIn(chars, class) == \A i \in 1..Len(chars) : chars[i] \in class

\* [a-zA-Z0-9._%+-]+@[a-zA-Z0-9.-]+\.[a-zA-Z]{2,}
EmailPattern(chars) ==
  \E at \in 1..Len(chars), dot \in 1..Len(chars) :
    /\ chars[at] = "@"
    /\ chars[dot] = "."
    /\ at > 1
    /\ AllIn(SubSeq(chars, 1, at - 1),
             LowerCase \cup UpperCase \cup Digits \cup {".", "_", "%", "+", "-"})
    /\ dot > at + 1
    /\ AllIn(SubSeq(chars, at + 1, dot - 1),
             LowerCase \cup UpperCase \cup Digits \cup {".", "-"})
    /\ Len(chars) - dot >= 2
    /\ AllIn(SubSeq(chars, dot + 1, Len(chars)), LowerCase \cup UpperCase)

\* ([0-1][0-9]|2[0-3]):[0-5][0-9]
TimePattern(chars) ==
  /\ Len(chars) = 5
  /\ \/ chars[1] \in {"0", "1"} /\ chars[2] \in Digits
     \/ chars[1] = "2" /\ chars[2] \in {"0", "1", "2", "3"}
  /\ chars[3] = ":"
  /\ chars[4] \in {"0", "1", "2", "3", "4", "5"}
  /\ chars[5] \in Digits

\* '$' matches at the end of the string and also just before a newline that
\* ends the string: the characters a pattern may stop at
BeforeFinalNewline(chars) ==
  IF Len(chars) > 0 /\ chars[Len(chars)] = "\n"
  THEN SubSeq(chars, 1, Len(chars) - 1)
  ELSE chars

is_valid_email(email) ==
  \/ EmailPattern(Characters(email))
  \/ EmailPattern(BeforeFinalNewline(Characters(email)))

is_valid_time(time_str) ==
  \/ TimePattern(Characters(time_str))
  \/ TimePattern(BeforeFinalNewline(Characters(time_str)))

validate_settings(settings) ==
  LET email == Get(Get(settings, "user", EmptyDict), "email", "")
      timezone == Get(Get(settings, "user", EmptyDict), "timezone", "")
      start_time == Get(Get(settings, "work_schedule", EmptyDict), "start_time", "")
      end_time == Get(Get(settings, "work_schedule", EmptyDict), "end_time", "")
  IN (IF email # "" /\ ~is_valid_email(email)
      THEN <<"Invalid email format">> ELSE << >>)
     \o (IF timezone = "" THEN <<"Timezone is required">> ELSE << >>)
     \o (IF start_time # "" /\ ~is_valid_time(start_time)
         THEN <<"Invalid start time format (use HH:MM)">> ELSE << >>)
     \o (IF end_time # "" /\ ~is_valid_time(end_time)
         THEN <<"Invalid end time format (use HH:MM)">> ELSE << >>)

\* the value of the class attribute DEFAULT_SETTINGS when the module is loaded
INITIAL_DEFAULT_SETTINGS ==
  [user |-> [email |-> "", timezone |-> "Europe/Berlin"],
   work_schedule |->
     [enabled |-> FALSE,
      days |-> <<"monday", "tuesday", "wednesday", "thursday", "friday">>,
      start_time |-> "09:00",
      end_time |-> "18:00"],
   integrations |->
     [n8n |-> [enabled |-> TRUE,
               webhook_url |-> "https://wins-n8n.zeabur.app/webhook/ai-tracker"],
      asana |->
        [enabled |-> FALSE,
         personal_access_token |-> "",
         cache |-> [user_gid |-> "", tasks_cache |-> EmptyDict],
         task_filters |->
           [match_task_names |->
              <<"Internal Comms & Team Management",
                "Meetings, Communications, Project Management",
                "Team Management (1-on-1s, all-hands, best-self review, management meeting, retrospective, sprint meetings, stand-up & team meeting)">>,
            match_sections_containing |-> <<"time-tracking">>,
            match_all_tasks |-> FALSE]]]]

\* The settings file: missing, holding the JSON text of a settings dict, or
\* holding text that json.load rejects.  json.dump followed by json.load
\* gives back an equal value for the dicts, lists, strings and booleans that
\* make up a settings dict, so a readable file is kept as the value it holds.
ConfigPaths == 1..MaxConfigPaths

MissingFile == [exists |-> FALSE]

StoredFile(settings) == [exists |-> TRUE, readable |-> TRUE, content |-> settings]

TruncatedFile == [exists |-> TRUE, readable |-> FALSE]

\* json.dump can encode the value: every cached task is JSON data
json_encodable(settings) ==
  LET cache == Get(Get(Get(settings, "integrations", EmptyDict), "asana", EmptyDict),
                   "cache", EmptyDict)
      tasks_cache == Get(cache, "tasks_cache", EmptyDict)
  IN \A email \in DOMAIN tasks_cache :
       \A i \in 1..Len(tasks_cache[email].tasks) : tasks_cache[email].tasks[i].json

\* _merge_with_defaults.  merged is a shallow copy of DEFAULT_SETTINGS, so
\* every update() below is an update of a dict that DEFAULT_SETTINGS holds:
\* the value returned is also the new value of DEFAULT_SETTINGS.  After
\* asana.update() the 'task_filters' and 'cache' of the defaults are the
\* dicts of the file, which the two inner update() calls then update with
\* themselves.
merge_with_defaults(defaults, settings) ==
  LET user == IF Has(settings, "user")
              THEN dict_update(defaults.user, settings.user)
              ELSE defaults.user
      work_schedule == IF Has(settings, "work_schedule")
                       THEN dict_update(defaults.work_schedule, settings.work_schedule)
                       ELSE defaults.work_schedule
      given == Get(settings, "integrations", EmptyDict)
      n8n == IF Has(given, "n8n")
             THEN dict_update(defaults.integrations.n8n, given.n8n)
             ELSE defaults.integrations.n8n
      asana_updated == IF Has(given, "asana")
                       THEN dict_update(defaults.integrations.asana, given.asana)
                       ELSE defaults.integrations.asana
      asana_filters == IF Has(given, "asana") /\ Has(given.asana, "task_filters")
                       THEN Put(asana_updated, "task_filters",
                                dict_update(asana_updated.task_filters,
                                            given.asana.task_filters))
                       ELSE asana_updated
      asana == IF Has(given, "asana") /\ Has(given.asana, "cache")
               THEN Put(asana_filters, "cache",
                        dict_update(asana_filters.cache, given.asana.cache))
               ELSE asana_filters
  IN [user |-> user,
      work_schedule |-> work_schedule,
      integrations |-> [n8n |-> n8n, asana |-> asana]]

\* load_settings: the value returned, which is also the value of
\* DEFAULT_SETTINGS after the call (the nested dicts are shared)
load_settings(defaults, file) ==
  IF file.exists
  THEN IF file.readable
       THEN merge_with_defaults(defaults, file.content)
       ELSE defaults
  ELSE defaults

\* save_settings: success, errors and the file after the call.  open(.., 'w')
\* empties the file before json.dump runs, so a dump that raises leaves a
\* file that is not JSON.
save_settings_unvalidated(settings, file) ==
  [success |-> TRUE, errors |-> << >>, file |-> StoredFile(settings)]

save_settings(settings, file) ==
  LET errors == validate_settings(settings)
  IN IF errors # << >>
     THEN [success |-> FALSE, errors |-> errors, file |-> file]
     ELSE IF json_encodable(settings)
          THEN [success |-> TRUE, errors |-> << >>, file |-> StoredFile(settings)]
          ELSE [success |-> FALSE, errors |-> <<"Failed to save settings">>,
                file |-> TruncatedFile]

\* set_asana_user_gid and set_cached_tasks, lines 146-151 and 227-232: the
\* keys the cache needs are created when missing
with_cache(settings, defaults) ==
  LET integrations == Get(settings, "integrations", EmptyDict)
      asana == Get(integrations, "asana", defaults.integrations.asana)
      cache == Get(asana, "cache", EmptyDict)
  IN Put(settings, "integrations",
         Put(integrations, "asana", Put(asana, "cache", cache)))

\* settings['integrations']['asana']['cache'][key] = value
with_cache_entry(settings, key, value) ==
  LET integrations == settings.integrations
      asana == integrations.asana
  IN Put(settings, "integrations",
         Put(integrations, "asana", Put(asana, "cache", Put(asana.cache, key, value))))

\* the settings set_asana_user_gid hands to save_settings
settings_with_gid(loaded, gid) ==
  with_cache_entry(with_cache(loaded, loaded), "user_gid", gid)

\* the settings set_cached_tasks hands to save_settings
settings_with_tasks(loaded, email, tasks, now) ==
  LET prepared == with_cache(loaded, loaded)
      tasks_cache == Get(prepared.integrations.asana.cache, "tasks_cache", EmptyDict)
  IN with_cache_entry(prepared, "tasks_cache",
                      Put(tasks_cache, email, [tasks |-> tasks, timestamp |-> now]))

\* ------------------------------------------------------------------------
\* State
\* ------------------------------------------------------------------------
VARIABLES
  events,                 \* self.events
  pc,                     \* position in analyze()
  active_events,          \* the filtered events
  day_end,                \* end of the day window
  current_time,           \* _create_time_blocks: start of the next slot
  last_active_block_end,  \* _create_time_blocks: end of the last activity block
  blocks,                 \* raw blocks; the list handed to the merger
  idx,                    \* pass 1: position of next_block in blocks
  current_block,          \* pass 1: the accumulator
  src,                    \* pass 1: position of the block the accumulator was copied from
  merged,                 \* output of pass 1
  filtered,               \* output of pass 1b
  timeline_blocks,        \* result of _merge_consecutive_blocks
  total_active_time,      \* result of analyze()
  run,                    \* 1: analyze(); 2: the merger applied to its own output
  first_timeline,         \* the output of run 1, kept for run 2
  DEFAULT_SETTINGS,       \* SettingsManager.DEFAULT_SETTINGS, one dict for all managers
  files,                  \* the settings file at each config path
  config_path,            \* self.config_path of the manager in use
  returned                \* the last call on the manager and what it returned

vars ==
  <<events, pc, active_events, day_end, current_time, last_active_block_end, blocks,
    idx, current_block, src, merged, filtered, timeline_blocks, total_active_time,
    run, first_timeline, DEFAULT_SETTINGS, files, config_path, returned>>

analyzer_vars ==
  <<events, pc, active_events, day_end, current_time, last_active_block_end, blocks,
    idx, current_block, src, merged, filtered, timeline_blocks, total_active_time,
    run, first_timeline>>

settings_vars == <<DEFAULT_SETTINGS, files, config_path, returned>>

\* the settings module is loaded and a manager is constructed on the first path
SettingsInit ==
  /\ DEFAULT_SETTINGS = INITIAL_DEFAULT_SETTINGS
  /\ files = [path \in ConfigPaths |-> MissingFile]
  /\ config_path = 1
  /\ returned = [op |-> "__init__"]

Init ==
  /\ events \in Inputs
  /\ pc = "analyze"
  /\ active_events = << >>
  /\ day_end = None
  /\ current_time = None
  /\ last_active_block_end = None
  /\ blocks = << >>
  /\ idx = 0
  /\ current_block = NoBlock
  /\ src = 0
  /\ merged = << >>
  /\ filtered = << >>
  /\ timeline_blocks = << >>
  /\ total_active_time = 0
  /\ run = 1
  /\ first_timeline = << >>
  /\ SettingsInit

\* analyze(), early returns: no events, or none survives the filter
AnalyzeEmpty ==
  /\ pc = "analyze"
  /\ events = << >> \/ filter_active_events(events) = << >>
  /\ pc' = "done"
  /\ timeline_blocks' = << >>
  /\ total_active_time' = 0
  /\ UNCHANGED <<settings_vars, events, active_events, day_end, current_time, last_active_block_end,
                 blocks, idx, current_block, src, merged, filtered, run, first_timeline>>

\* analyze(), steps 1 and 2, and the entry of _create_time_blocks
AnalyzeBegin ==
  /\ pc = "analyze"
  /\ events # << >>
  /\ filter_active_events(events) # << >>
  /\ active_events' = filter_active_events(events)
  /\ current_time' = get_day_boundaries(active_events')[1]
  /\ day_end' = get_day_boundaries(active_events')[2]
  /\ last_active_block_end' = None
  /\ blocks' = << >>
  /\ pc' = "segment"
  /\ UNCHANGED <<settings_vars, events, idx, current_block, src, merged, filtered, timeline_blocks,
                 total_active_time, run, first_timeline>>

\* one iteration of the while loop of _create_time_blocks
CreateStep ==
  /\ pc = "segment"
  /\ current_time < day_end
  /\ blocks' = SlotStep(active_events, current_time, blocks, last_active_block_end)[1]
  /\ last_active_block_end' =
       SlotStep(active_events, current_time, blocks, last_active_block_end)[2]
  /\ current_time' = current_time + block_duration
  /\ UNCHANGED <<settings_vars, events, pc, active_events, day_end, idx, current_block, src, merged,
                 filtered, timeline_blocks, total_active_time, run, first_timeline>>

\* the loop of _create_time_blocks ends; raw_blocks go to the merger
CreateDone ==
  /\ pc = "segment"
  /\ current_time >= day_end
  /\ pc' = "merge"
  /\ UNCHANGED <<settings_vars, events, active_events, day_end, current_time, last_active_block_end,
                 blocks, idx, current_block, src, merged, filtered, timeline_blocks,
                 total_active_time, run, first_timeline>>

\* _merge_consecutive_blocks on an empty list
MergeEmpty ==
  /\ pc = "merge"
  /\ blocks = << >>
  /\ timeline_blocks' = << >>
  /\ pc' = "total"
  /\ UNCHANGED <<settings_vars, events, active_events, day_end, current_time, last_active_block_end,
                 blocks, idx, current_block, src, merged, filtered, total_active_time,
                 run, first_timeline>>

\* _merge_consecutive_blocks, before the loop of pass 1
MergeBegin ==
  /\ pc = "merge"
  /\ blocks # << >>
  /\ merged' = << >>
  /\ current_block' = StartAccumulator(blocks[1])
  /\ src' = 1
  /\ idx' = 2
  /\ pc' = "pass1"
  /\ UNCHANGED <<settings_vars, events, active_events, day_end, current_time, last_active_block_end,
                 blocks, filtered, timeline_blocks, total_active_time, run,
                 first_timeline>>

\* pass 1, one iteration, match: the accumulator is extended.  The copy is
\* shallow, so the main_activity that gets the added duration is also the
\* main_activity of the block the accumulator was copied from.
MergeMatch ==
  /\ pc = "pass1"
  /\ idx <= Len(blocks)
  /\ Matches(current_block, blocks[idx])
  /\ current_block' = MergeInto(current_block, blocks[idx])
  /\ blocks' = [blocks EXCEPT
                  ![src].main_activity.duration = @ + blocks[idx].main_activity.duration]
  /\ idx' = idx + 1
  /\ UNCHANGED <<settings_vars, events, pc, active_events, day_end, current_time, last_active_block_end,
                 src, merged, filtered, timeline_blocks, total_active_time, run,
                 first_timeline>>

\* pass 1, one iteration, no match (an AFK block on either side, or another
\* activity): the accumulator is flushed and restarted from next_block
MergeFlush ==
  /\ pc = "pass1"
  /\ idx <= Len(blocks)
  /\ ~Matches(current_block, blocks[idx])
  /\ merged' = Append(merged, current_block)
  /\ current_block' = StartAccumulator(blocks[idx])
  /\ src' = idx
  /\ idx' = idx + 1
  /\ UNCHANGED <<settings_vars, events, pc, active_events, day_end, current_time, last_active_block_end,
                 blocks, filtered, timeline_blocks, total_active_time, run,
                 first_timeline>>

\* pass 1, after the loop: the last accumulator is flushed
MergeLast ==
  /\ pc = "pass1"
  /\ idx > Len(blocks)
  /\ merged' = Append(merged, current_block)
  /\ pc' = "pass1b"
  /\ UNCHANGED <<settings_vars, events, active_events, day_end, current_time, last_active_block_end,
                 blocks, idx, current_block, src, filtered, timeline_blocks,
                 total_active_time, run, first_timeline>>

\* pass 1b: the 10% filter over merged
FilterPass ==
  /\ pc = "pass1b"
  /\ filtered' = [i \in 1..Len(merged) |-> significance_filter(merged[i])]
  /\ pc' = "pass2"
  /\ UNCHANGED <<settings_vars, events, active_events, day_end, current_time, last_active_block_end,
                 blocks, idx, current_block, src, merged, timeline_blocks,
                 total_active_time, run, first_timeline>>

\* pass 2: consecutive AFK blocks are merged; the merger returns
CoalescePass ==
  /\ pc = "pass2"
  /\ timeline_blocks' = coalesce_afk(filtered, 1, << >>, NoBlock)
  /\ pc' = "total"
  /\ UNCHANGED <<settings_vars, events, active_events, day_end, current_time, last_active_block_end,
                 blocks, idx, current_block, src, merged, filtered, total_active_time,
                 run, first_timeline>>

\* analyze(), step 5 and return
Total ==
  /\ pc = "total"
  /\ total_active_time' = total_time(timeline_blocks)
  /\ pc' = "done"
  /\ UNCHANGED <<settings_vars, events, active_events, day_end, current_time, last_active_block_end,
                 blocks, idx, current_block, src, merged, filtered, timeline_blocks,
                 run, first_timeline>>

Next ==
  \/ AnalyzeEmpty
  \/ AnalyzeBegin
  \/ CreateStep
  \/ CreateDone
  \/ MergeEmpty
  \/ MergeBegin
  \/ MergeMatch
  \/ MergeFlush
  \/ MergeLast
  \/ FilterPass
  \/ CoalescePass
  \/ Total

Spec == Init /\ [][Next]_vars

\* _merge_consecutive_blocks applied once more, to its own output
Remerge ==
  /\ pc = "done"
  /\ run = 1
  /\ timeline_blocks # << >>
  /\ first_timeline' = timeline_blocks
  /\ blocks' = timeline_blocks
  /\ run' = 2
  /\ pc' = "merge"
  /\ UNCHANGED <<settings_vars, events, active_events, day_end, current_time, last_active_block_end,
                 idx, current_block, src, merged, filtered, timeline_blocks,
                 total_active_time>>

NextRemerge == Next \/ Remerge

SpecRemerge == Init /\ [][NextRemerge]_vars

\* ------------------------------------------------------------------------
\* Checked inputs of the group claims: up to MaxSlotEvents events that put
\* several (app, title) groups into the first three slots
\* ------------------------------------------------------------------------
SlotOptions ==
  {\* one app with an empty title, then two different titles, slot after slot
   Ev(SlotStart(0), 900, "Terminal", "", FALSE),
   Ev(SlotStart(1), 900, "Terminal", "zsh", FALSE),
   Ev(SlotStart(2), 900, "Terminal", "vim", FALSE),
   \* a browser with an empty title, then a title
   Ev(SlotStart(0), 900, "Google Chrome", "", FALSE),
   Ev(SlotStart(1), 900, "Google Chrome", "Inbox", FALSE),
   \* a main activity over two slots and groups that accompany it
   Ev(SlotStart(0), 1800, "Terminal", "zsh", FALSE),
   Ev(SlotStart(0) + 600, 600, "Google Chrome", "Inbox", FALSE),
   Ev(SlotStart(0) + 780, 300, "Google Chrome", "Docs", FALSE),
   Ev(SlotStart(1), 400, "Terminal", "vim", FALSE),
   \* groups at and just below the 60 seconds
   Ev(SlotStart(0), 60, "Slack", "", FALSE),
   Ev(SlotStart(0), 59, "Slack", "general", FALSE),
   Ev(SlotStart(0), 80, "Mail", "", FALSE),
   \* two (app, title) pairs with the same activity_key
   Ev(SlotStart(0), 40, "a", "b:c", FALSE),
   Ev(SlotStart(0), 40, "a:b", "c", FALSE)}

RECURSIVE SlotLists(_)
SlotLists(n) ==
  IF n = 0 THEN {<< >>}
  ELSE LET shorter == SlotLists(n - 1)
       IN shorter \cup
          {Append(s, e) : s \in {t \in shorter : Len(t) = n - 1},
                          e \in SlotOptions}

SlotInputs == {s \in SlotLists(MaxSlotEvents) : TimeOrdered(s)}

InitSlots ==
  /\ events \in SlotInputs
  /\ pc = "analyze"
  /\ active_events = << >>
  /\ day_end = None
  /\ current_time = None
  /\ last_active_block_end = None
  /\ blocks = << >>
  /\ idx = 0
  /\ current_block = NoBlock
  /\ src = 0
  /\ merged = << >>
  /\ filtered = << >>
  /\ timeline_blocks = << >>
  /\ total_active_time = 0
  /\ run = 1
  /\ first_timeline = << >>
  /\ SettingsInit

SpecSlots == InitSlots /\ [][Next]_vars

\* ------------------------------------------------------------------------
\* SettingsManager: the calls made on managers that share DEFAULT_SETTINGS
\* ------------------------------------------------------------------------
\* settings dicts handed to save_settings
CallerSettings ==
  {[user |-> [email |-> "a@b.co", timezone |-> "UTC"],
    work_schedule |-> [start_time |-> "09:00\n", end_time |-> ""]],
   [user |-> [email |-> "nobody", timezone |-> "UTC"]],
   [user |-> [email |-> "", timezone |-> ""]],
   [user |-> [timezone |-> "UTC"],
    work_schedule |-> [start_time |-> "9:00", end_time |-> "18:00"]],
   [user |-> [timezone |-> "UTC"],
    work_schedule |-> [start_time |-> "09:00", end_time |-> "24:00"]],
   [user |-> [timezone |-> "UTC"],
    integrations |-> [asana |-> [cache |-> [user_gid |-> "1200"]]]]}

UserGids == {"1201"}

CacheEmails == {"u@x.io"}

\* task lists: one of JSON data, one with an object json.dump cannot encode
TaskLists ==
  {<<[name |-> "Review", json |-> TRUE]>>,
   <<[name |-> "Review", json |-> FALSE]>>}

\* values of datetime.now(timezone.utc).isoformat()
Timestamps == {"2025-01-06T06:00:00+00:00"}

InitSettings ==
  /\ events = << >>
  /\ pc = "analyze"
  /\ active_events = << >>
  /\ day_end = None
  /\ current_time = None
  /\ last_active_block_end = None
  /\ blocks = << >>
  /\ idx = 0
  /\ current_block = NoBlock
  /\ src = 0
  /\ merged = << >>
  /\ filtered = << >>
  /\ timeline_blocks = << >>
  /\ total_active_time = 0
  /\ run = 1
  /\ first_timeline = << >>
  /\ SettingsInit

\* SettingsManager(config_path): another manager, on the same class attribute
Construct(path) ==
  /\ config_path' = path
  /\ returned' = [op |-> "__init__"]
  /\ UNCHANGED <<analyzer_vars, DEFAULT_SETTINGS, files>>

LoadSettings ==
  /\ DEFAULT_SETTINGS' = load_settings(DEFAULT_SETTINGS, files[config_path])
  /\ returned' = [op |-> "load_settings", settings |-> DEFAULT_SETTINGS']
  /\ UNCHANGED <<analyzer_vars, files, config_path>>

SaveSettings(settings) ==
  LET saved == save_settings(settings, files[config_path])
  IN /\ files' = [files EXCEPT ![config_path] = saved.file]
     /\ returned' = [op |-> "save_settings", settings |-> settings,
                     success |-> saved.success, errors |-> saved.errors]
     /\ UNCHANGED <<analyzer_vars, DEFAULT_SETTINGS, config_path>>

\* the dict that load_settings returned shares its nested dicts with
\* DEFAULT_SETTINGS, so the cache entry is set in DEFAULT_SETTINGS as well
SetAsanaUserGid(gid) ==
  LET loaded == load_settings(DEFAULT_SETTINGS, files[config_path])
      settings == settings_with_gid(loaded, gid)
      saved == save_settings(settings, files[config_path])
  IN /\ DEFAULT_SETTINGS' = settings
     /\ files' = [files EXCEPT ![config_path] = saved.file]
     /\ returned' = [op |-> "set_asana_user_gid", gid |-> gid, success |-> saved.success]
     /\ UNCHANGED <<analyzer_vars, config_path>>

SetCachedTasks(email, tasks, now) ==
  LET loaded == load_settings(DEFAULT_SETTINGS, files[config_path])
      settings == settings_with_tasks(loaded, email, tasks, now)
      saved == save_settings(settings, files[config_path])
  IN /\ DEFAULT_SETTINGS' = settings
     /\ files' = [files EXCEPT ![config_path] = saved.file]
     /\ returned' = [op |-> "set_cached_tasks", email |-> email, tasks |-> tasks,
                     success |-> saved.success]
     /\ UNCHANGED <<analyzer_vars, config_path>>

NextSettings ==
  \/ \E path \in ConfigPaths : Construct(path)
  \/ LoadSettings
  \/ \E settings \in CallerSettings : SaveSettings(settings)
  \/ \E gid \in UserGids : SetAsanaUserGid(gid)
  \/ \E email \in CacheEmails, tasks \in TaskLists, now \in Timestamps :
       SetCachedTasks(email, tasks, now)

SpecSettings == InitSettings /\ [][NextSettings]_vars

\* ------------------------------------------------------------------------
\* Properties
\* ------------------------------------------------------------------------
\* start of the day window
DayStart == ReplaceHour(day_end, DAY_START_HOUR)

\* the instant a block's end_time (HH:MM) denotes on the day of the window
EndInstant(block) == ReplaceHour(day_end, 0) + block.end_time * SECONDS_PER_MINUTE

\* end - start of a block, from its HH:MM fields
Span(block) == (block.end_time - block.start_time) * SECONDS_PER_MINUTE

LastOf(s) == s[Len(s)]

\* the slot about to be processed has overlapping events but no group of 60 seconds
SubThresholdSlot ==
  /\ pc = "segment"
  /\ current_time < day_end
  /\ get_events_in_block(current_time, current_time + block_duration, active_events) # << >>
  /\ analyze_block(current_time, current_time + block_duration,
                   get_events_in_block(current_time, current_time + block_duration,
                                       active_events)) = NoBlock

\* the input is one 20-minute event inside the day window, not marked AFK
SingleTwentyMinuteEvent ==
  /\ Len(events) = 1
  /\ events[1].duration = 1200
  /\ ~events[1].afk
  /\ events[1].timestamp >= DayStart
  /\ events[1].timestamp + events[1].duration <= day_end

\* C1: no two adjacent blocks of the final sequence timeline_blocks are both AFK
C1_NoAdjacentAfk ==
  \A i \in 1..(Len(timeline_blocks) - 1) :
    ~(timeline_blocks[i].is_afk /\ timeline_blocks[i + 1].is_afk)

\* C1 witness: analyze() has returned and pass 2 met two adjacent AFK blocks
C1_Witness ==
  /\ pc = "done"
  /\ run = 1
  /\ \E i \in 1..(Len(filtered) - 1) : filtered[i].is_afk /\ filtered[i + 1].is_afk
  /\ \E i \in 1..Len(timeline_blocks) : timeline_blocks[i].is_afk

\* C2 (as claimed): the durations of timeline_blocks add up to the 06:00-21:00
\* span minus only the trailing gap after the last block
C2_SumCoversWindow ==
  (pc = "done" /\ run = 1 /\ timeline_blocks # << >>) =>
    total_time(timeline_blocks) =
      (day_end - DayStart) - (day_end - EndInstant(LastOf(timeline_blocks)))

\* C3: the merger applied to its own output returns that output unchanged
C3_Idempotent ==
  (pc = "done" /\ run = 2) => timeline_blocks = first_timeline

\* C3 witness: the second run has finished on an output that holds a session
\* block of several slots and an AFK block
C3_Witness ==
  /\ pc = "done"
  /\ run = 2
  /\ \E i \in 1..Len(first_timeline) : first_timeline[i].is_afk
  /\ \E i \in 1..Len(first_timeline) :
       ~first_timeline[i].is_afk /\ first_timeline[i].duration > block_duration

\* C4 (as claimed): every non-AFK block of timeline_blocks has
\* main_activity.percentage = main_activity.duration / block.duration * 100
\* (at the one decimal the code keeps)
C4_PercentageOfDuration ==
  (pc = "done" /\ run = 1) =>
    \A i \in 1..Len(timeline_blocks) :
      ~timeline_blocks[i].is_afk =>
        timeline_blocks[i].main_activity.percentage =
          Percentage(timeline_blocks[i].main_activity.duration, timeline_blocks[i].duration)

\* C5 (as claimed): every block of timeline_blocks has duration = end - start
C5_DurationIsSpan ==
  (pc = "done" /\ run = 1) =>
    \A i \in 1..Len(timeline_blocks) :
      timeline_blocks[i].duration = Span(timeline_blocks[i])

\* C6 (as claimed): between two consecutive activity blocks of the raw
\* sequence there is at most one AFK block, and it covers exactly the time
\* between them
C6_OneGapBlock ==
  run = 1 =>
    \A i, j \in 1..Len(blocks) :
      (/\ i < j
       /\ ~blocks[i].is_afk
       /\ ~blocks[j].is_afk
       /\ \A k \in (i + 1)..(j - 1) : blocks[k].is_afk) =>
        /\ j - i <= 2
        /\ j - i = 2 =>
             /\ blocks[i + 1].start_time = blocks[i].end_time
             /\ blocks[i + 1].end_time = blocks[j].start_time

\* C7 (as claimed): the last block of the raw sequence returned by
\* _create_time_blocks is an activity block, never an AFK block
C7_LastRawBlockActive ==
  (pc = "merge" /\ run = 1 /\ blocks # << >>) => ~LastOf(blocks).is_afk

\* C8 (as claimed): processing a slot that has events but no group of 60
\* seconds appends nothing to the raw sequence
C8_SubThresholdSlotAppendsNothing ==
  [][SubThresholdSlot => blocks' = blocks]_vars

\* C9 (as claimed): one 20-minute event inside the window gives exactly one
\* session block of that app followed by one AFK block up to 21:00
C9_SessionThenAfkToDayEnd ==
  (pc = "done" /\ run = 1 /\ SingleTwentyMinuteEvent) =>
    /\ Len(timeline_blocks) = 2
    /\ ~timeline_blocks[1].is_afk
    /\ timeline_blocks[1].main_activity.raw_app = events[1].app
    /\ timeline_blocks[2].is_afk
    /\ timeline_blocks[2].start_time = timeline_blocks[1].end_time
    /\ timeline_blocks[2].end_time = HHMM(day_end)

\* C10 (as claimed): every non-AFK block, raw (as the segmenter returns it) or
\* merged, has main_activity.duration <= block.duration
C10_MainWithinBlock ==
  run = 1 =>
    /\ pc = "merge" =>
         \A i \in 1..Len(blocks) :
           ~blocks[i].is_afk => blocks[i].main_activity.duration <= blocks[i].duration
    /\ pc = "done" =>
         \A i \in 1..Len(timeline_blocks) :
           ~timeline_blocks[i].is_afk =>
             timeline_blocks[i].main_activity.duration <= timeline_blocks[i].duration

\* C11: after the merge passes no non-AFK block of timeline_blocks has a
\* main_activity.percentage below 10.0
C11_NoInsignificantActivity ==
  (pc \in {"total", "done"}) =>
    \A i \in 1..Len(timeline_blocks) :
      ~timeline_blocks[i].is_afk =>
        timeline_blocks[i].main_activity.percentage >= SIGNIFICANCE_TENTHS

\* C11 witness: analyze() has returned, pass 1 produced an activity block
\* below 10.0, and an activity block is left in timeline_blocks
C11_Witness ==
  /\ pc = "done"
  /\ run = 1
  /\ \E i \in 1..Len(merged) :
       ~merged[i].is_afk /\ merged[i].main_activity.percentage < SIGNIFICANCE_TENTHS
  /\ \E i \in 1..Len(timeline_blocks) : ~timeline_blocks[i].is_afk

\* C12 (as claimed): every non-AFK block of timeline_blocks has
\* 0 <= main_activity.percentage <= 100
C12_PercentageInRange ==
  (pc = "done" /\ run = 1) =>
    \A i \in 1..Len(timeline_blocks) :
      ~timeline_blocks[i].is_afk =>
        /\ timeline_blocks[i].main_activity.percentage >= 0
        /\ timeline_blocks[i].main_activity.percentage <= FULL_PERCENT_TENTHS

\* 21:00 of the day of instant t
CapInstant(t) == ReplaceHour(t, DAY_END_HOUR)

\* the step is an iteration of pass 1 that extends the accumulator: nothing
\* is flushed to merged
ExtendsAccumulator ==
  /\ pc = "pass1"
  /\ idx <= Len(blocks)
  /\ idx' = idx + 1
  /\ merged' = merged

\* the accumulator is a session of several slots whose end is at (or past) 21:00
CappedAccumulator ==
  /\ pc = "pass1"
  /\ ~current_block.is_afk
  /\ current_block.duration > block_duration
  /\ current_block.end_time_utc >= CapInstant(current_block.start_time_utc)

AfkSpans(blks) ==
  LET IsAfk(b) == b.is_afk
      afk == SelectSeq(blks, IsAfk)
  IN [i \in 1..Len(afk) |-> <<afk[i].start_time, afk[i].end_time, afk[i].duration>>]

\* block covers the slots of both raw activity blocks first and second
Joins(block, first, second) ==
  /\ ~block.is_afk
  /\ block.start_time_utc <= first.start_time_utc
  /\ second.end_time_utc <= block.end_time_utc

\* C14: pass 1 merges AFK blocks with nothing: the AFK blocks of its output
\* are the AFK blocks of the raw sequence, one for one, with start, end and
\* duration unchanged, and no block of its output joins two activity blocks
\* that have an AFK block between them in the raw sequence
C14_AfkNeverMergedInPass1 ==
  (pc = "pass1b" /\ run = 1) =>
    /\ AfkSpans(merged) = AfkSpans(blocks)
    /\ \A i, k, j \in 1..Len(blocks) :
         (i < k /\ k < j /\ ~blocks[i].is_afk /\ blocks[k].is_afk /\ ~blocks[j].is_afk) =>
           \A m \in 1..Len(merged) : ~Joins(merged[m], blocks[i], blocks[j])

\* C14 witness: pass 1 has finished on a raw sequence that holds two adjacent
\* AFK blocks, between two activity blocks of one activity
C14_Witness ==
  /\ pc = "pass1b"
  /\ run = 1
  /\ \E k \in 2..(Len(blocks) - 2) :
       /\ blocks[k].is_afk
       /\ blocks[k + 1].is_afk
       /\ ~blocks[k - 1].is_afk
       /\ ~blocks[k + 2].is_afk
       /\ blocks[k - 1].main_activity.raw_app = blocks[k + 2].main_activity.raw_app
       /\ blocks[k - 1].main_activity.primary_window = blocks[k + 2].main_activity.primary_window

\* pass 1 is about to compare a non-AFK accumulator with a non-AFK next block
ComparesActivities ==
  /\ pc = "pass1"
  /\ idx <= Len(blocks)
  /\ ~current_block.is_afk
  /\ ~blocks[idx].is_afk

\* the merge condition as claimed, on the accumulator's main app, the next
\* block's main activity and the title set of the first block of the session
ClaimedMergeCondition ==
  LET acc == current_block.main_activity
      nxt == blocks[idx].main_activity
      first_titles == blocks[src].main_activity.windows
  IN /\ \/ /\ acc.raw_app \in (BROWSERS \cup EDITORS)
           /\ acc.raw_app = nxt.raw_app
           /\ acc.primary_window = nxt.primary_window
        \/ /\ acc.raw_app \notin (BROWSERS \cup EDITORS)
           /\ acc.raw_app = nxt.raw_app
     /\ \/ first_titles \cap nxt.windows # {}
        \/ first_titles = {}
        \/ nxt.windows = {}

\* C15: in pass 1 a non-AFK next block is merged into a non-AFK accumulator
\* exactly when the claimed condition holds
C15_MergeIffSameActivity ==
  [][ComparesActivities => (ExtendsAccumulator <=> ClaimedMergeCondition)]_vars

\* C15 witness: a session that began with an empty title set and has taken a
\* block with one title is compared with a block of the same app and another
\* title
C15_Witness ==
  /\ ComparesActivities
  /\ run = 1
  /\ current_block.duration > block_duration
  /\ blocks[src].main_activity.windows = {}
  /\ blocks[idx - 1].main_activity.windows # {}
  /\ blocks[idx].main_activity.windows # {}
  /\ blocks[idx].main_activity.windows \cap blocks[idx - 1].main_activity.windows = {}
  /\ blocks[idx].main_activity.raw_app = current_block.main_activity.raw_app

\* main_activity.duration of the raw block of the slot starting at t, as the
\* Block Analyzer computes it from the events
InSlotMainDuration(t) ==
  analyze_block(t, t + block_duration,
                get_events_in_block(t, t + block_duration, active_events)).main_activity.duration

\* positions of the raw activity blocks that lie within a session block
MergedFrom(session) ==
  {j \in 1..Len(blocks) :
     /\ ~blocks[j].is_afk
     /\ session.start_time_utc <= blocks[j].start_time_utc
     /\ blocks[j].end_time_utc <= session.end_time_utc}

\* the claimed content of a session block: start of its first and end of its
\* last raw block, and the sum of their in-slot main durations
IsSumOfItsSlots(session) ==
  LET from == MergedFrom(session)
      first == CHOOSE j \in from : \A k \in from : j <= k
      last == CHOOSE j \in from : \A k \in from : k <= j
  IN /\ from # {}
     /\ session.start_time = blocks[first].start_time
     /\ session.start_time_utc = blocks[first].start_time_utc
     /\ session.end_time = blocks[last].end_time
     /\ session.end_time_utc = blocks[last].end_time_utc
     /\ session.main_activity.duration =
          SumSeq([j \in 1..Len(blocks) |->
                    IF j \in from THEN InSlotMainDuration(blocks[j].start_time_utc) ELSE 0])

\* C16: every merge of pass 1 sets the accumulator's end to the next block's
\* end and adds the next block's main_activity.duration to the accumulator's,
\* so every session block that leaves pass 1 starts with its first raw block,
\* ends with its last, and has as main_activity.duration the sum of the in-slot
\* main durations of its raw blocks
C16_SessionAccumulates ==
  /\ [][ExtendsAccumulator =>
          /\ current_block'.end_time = blocks[idx].end_time
          /\ current_block'.end_time_utc = blocks[idx].end_time_utc
          /\ current_block'.start_time_utc = current_block.start_time_utc
          /\ current_block'.main_activity.duration =
               current_block.main_activity.duration + blocks[idx].main_activity.duration]_vars
  /\ []((pc = "pass1b" /\ run = 1) =>
          \A i \in 1..Len(merged) : ~merged[i].is_afk => IsSumOfItsSlots(merged[i]))

\* C16 witness: pass 1 has produced a session of several slots whose raw
\* blocks have different main durations
C16_Witness ==
  /\ pc = "pass1b"
  /\ run = 1
  /\ \E i \in 1..Len(merged) :
       /\ ~merged[i].is_afk
       /\ Cardinality(MergedFrom(merged[i])) >= 2
       /\ \E j, k \in MergedFrom(merged[i]) :
            InSlotMainDuration(blocks[j].start_time_utc) #
              InSlotMainDuration(blocks[k].start_time_utc)

\* pass 1b reclassifies the block: it is an activity block below 10.0
Insignificant(block) ==
  ~block.is_afk /\ block.main_activity.percentage < SIGNIFICANCE_TENTHS

\* after is before turned into an AFK block whose idle activity covers the
\* block's full duration
ReclassifiedAs(before, after) ==
  /\ after.is_afk
  /\ after.main_activity.app = "AFK / Inactive"
  /\ after.main_activity.raw_app = "AFK"
  /\ after.main_activity.duration = before.duration
  /\ after.main_activity.percentage = FULL_PERCENT_TENTHS
  /\ after.supporting_activities = << >>
  /\ after.start_time = before.start_time
  /\ after.end_time = before.end_time
  /\ after.duration = before.duration

\* C17: pass 1b keeps the number and order of the blocks; an activity block
\* below 10.0 becomes an AFK block with an idle main activity of the block's
\* full duration at 100% and no supporting activities; every other block
\* passes with all fields unchanged
C17_SignificanceFilter ==
  (pc = "pass2" /\ run = 1) =>
    /\ Len(filtered) = Len(merged)
    /\ \A i \in 1..Len(merged) :
         IF Insignificant(merged[i])
         THEN ReclassifiedAs(merged[i], filtered[i])
         ELSE filtered[i] = merged[i]

\* C17 witness: pass 1b has reclassified a block that had supporting
\* activities and has passed an activity block
C17_Witness ==
  /\ pc = "pass2"
  /\ run = 1
  /\ \E i \in 1..Len(merged) :
       Insignificant(merged[i]) /\ merged[i].supporting_activities # << >>
  /\ \E i \in 1..Len(merged) : ~merged[i].is_afk /\ ~filtered[i].is_afk

\* starts of the slots of the day window
SlotStarts ==
  {DayStart + k * block_duration : k \in 0..((day_end - DayStart) \div block_duration - 1)}

\* the (app, title) pairs of the events that overlap the slot starting at t
PairsIn(t) ==
  {<<active_events[i].app, active_events[i].title>> :
     i \in {n \in 1..Len(active_events) :
              Overlaps(active_events[n], t, t + block_duration)}}

\* summed in-slot duration of the events of one (app, title) pair
PairDuration(pair, t) ==
  SumSeq([i \in 1..Len(active_events) |->
            IF /\ <<active_events[i].app, active_events[i].title>> = pair
               /\ Overlaps(active_events[i], t, t + block_duration)
            THEN OverlapDuration(active_events[i], t, t + block_duration)
            ELSE 0])

\* the (app, title) groups of the slot that reach 60 seconds
SurvivingPairs(t) == {pair \in PairsIn(t) : PairDuration(pair, t) >= MIN_GROUP_SECONDS}

\* the raw activity blocks of the slot starting at t
RawBlocksAt(t) ==
  {j \in 1..Len(blocks) : ~blocks[j].is_afk /\ blocks[j].start_time_utc = t}

\* label and duration of the main and the supporting activities of a block
KeptActivities(block) ==
  {<<block.main_activity.app, block.main_activity.duration>>} \cup
  {<<block.supporting_activities[k].app, block.supporting_activities[k].duration>> :
     k \in 1..Len(block.supporting_activities)}

\* C18 (as claimed): the Block Analyzer returns a block for a slot exactly
\* when some (app, title) group of the slot reaches 60 seconds, the block
\* keeps exactly the groups that do, and no main or supporting activity of a
\* raw block is shorter than 60 seconds
C18_KeepsGroupsOfSixtySeconds ==
  (pc = "merge" /\ run = 1) =>
    \A t \in SlotStarts :
      /\ RawBlocksAt(t) # {} <=> SurvivingPairs(t) # {}
      /\ \A j \in RawBlocksAt(t) :
           /\ KeptActivities(blocks[j]) =
                {<<display_name(pair[1], pair[2]), PairDuration(pair, t)>> :
                   pair \in SurvivingPairs(t)}
           /\ \A kept \in KeptActivities(blocks[j]) : kept[2] >= MIN_GROUP_SECONDS

\* C19 (as claimed): the main activity of a raw block is the surviving
\* (app, title) group with the largest in-slot duration, and the supporting
\* activities are all the other surviving groups, each once, largest first
C19_MainIsLargestGroup ==
  (pc = "merge" /\ run = 1) =>
    \A t \in SlotStarts :
      \A j \in RawBlocksAt(t) :
        LET main == blocks[j].main_activity
            supporting == blocks[j].supporting_activities
            main_pair == <<main.raw_app, main.primary_window>>
        IN /\ main_pair \in SurvivingPairs(t)
           /\ main.duration = PairDuration(main_pair, t)
           /\ \A pair \in SurvivingPairs(t) : PairDuration(pair, t) <= main.duration
           /\ \A k \in 1..Len(supporting) : supporting[k].duration <= main.duration
           /\ \A k \in 1..(Len(supporting) - 1) :
                supporting[k].duration >= supporting[k + 1].duration
           /\ Len(supporting) = Cardinality(SurvivingPairs(t)) - 1
           /\ \A pair \in SurvivingPairs(t) \ {main_pair} :
                \E k \in 1..Len(supporting) :
                  /\ supporting[k].app = display_name(pair[1], pair[2])
                  /\ supporting[k].duration = PairDuration(pair, t)

\* the raw blocks a block of pass 1 was made from (an AFK block has no
\* supporting activities to collect)
SourcesOf(block) == IF block.is_afk THEN {} ELSE MergedFrom(block)

\* labels of the supporting activities of the raw blocks at the positions from
RawSupportingLabels(from) ==
  UNION {{blocks[j].supporting_activities[k].app :
            k \in 1..Len(blocks[j].supporting_activities)} : j \in from}

\* summed duration of the supporting entries with one label in the raw blocks
\* at the positions from
RawSupportingTotal(label, from) ==
  SumSeq([j \in 1..Len(blocks) |->
            IF j \in from
            THEN SumSeq([k \in 1..Len(blocks[j].supporting_activities) |->
                           IF blocks[j].supporting_activities[k].app = label
                           THEN blocks[j].supporting_activities[k].duration
                           ELSE 0])
            ELSE 0])

\* C20: in every block that left pass 1 no two supporting activities share a
\* label, each label of the raw blocks merged into it appears with the sum
\* of the durations of its supporting entries in those raw blocks, and the
\* list is in descending order of duration
C20_SupportingConsolidated ==
  (pc = "pass1b" /\ run = 1) =>
    \A i \in 1..Len(merged) :
      LET supporting == merged[i].supporting_activities
          from == SourcesOf(merged[i])
      IN /\ \A a, b \in 1..Len(supporting) :
              a # b => supporting[a].app # supporting[b].app
         /\ {supporting[a].app : a \in 1..Len(supporting)} = RawSupportingLabels(from)
         /\ \A a \in 1..Len(supporting) :
              supporting[a].duration = RawSupportingTotal(supporting[a].app, from)
         /\ \A a \in 1..(Len(supporting) - 1) :
              supporting[a].duration >= supporting[a + 1].duration

\* C20 witness: pass 1 has produced a session of several raw blocks in which
\* a supporting label occurs in two raw blocks, and whose largest supporting
\* activity is not the one seen first
C20_Witness ==
  /\ pc = "pass1b"
  /\ run = 1
  /\ \E i \in 1..Len(merged) :
       LET supporting == merged[i].supporting_activities
           from == SourcesOf(merged[i])
       IN /\ Len(supporting) >= 2
          /\ \E j, k \in from :
               /\ j < k
               /\ blocks[j].supporting_activities # << >>
               /\ \E n \in 1..Len(blocks[k].supporting_activities) :
                    blocks[k].supporting_activities[n].app =
                      blocks[j].supporting_activities[1].app
               /\ \A m \in from : j <= m
               /\ supporting[1].app # blocks[j].supporting_activities[1].app

\* the claimed condition for keeping an event
ClaimedKept(event) ==
  /\ ~(event.afk /\ event.duration >= 120)
  /\ event.app # "loginwindow"
  /\ event.duration >= 5

\* s is t with some elements left out: same elements, same order
RECURSIVE IsSubsequence(_, _)
IsSubsequence(s, t) ==
  IF s = << >> THEN TRUE
  ELSE IF t = << >> THEN FALSE
  ELSE IF Head(s) = Head(t) THEN IsSubsequence(Tail(s), Tail(t))
  ELSE IsSubsequence(s, Tail(t))

\* number of positions of s that hold e
Occurrences(s, e) == Cardinality({i \in 1..Len(s) : s[i] = e})

\* the Event Filter has run
Filtered == pc \notin {"analyze"} /\ events # << >>

\* C21: the filtered events are the events that satisfy the claimed condition,
\* all of them and no others, unmodified and in the order of the input
C21_FilterKeepsIff ==
  Filtered =>
    /\ IsSubsequence(active_events, events)
    /\ \A i \in 1..Len(events) :
         Occurrences(active_events, events[i]) =
           IF ClaimedKept(events[i]) THEN Occurrences(events, events[i]) ELSE 0

\* C21 witness: the filter has kept an AFK event of less than 120 seconds and
\* an event of 5 seconds, or dropped an AFK event of 120 seconds, a
\* loginwindow event or an event of 4 seconds, with a kept and a dropped
\* event in the same input
C21_Witness ==
  /\ Filtered
  /\ run = 1
  /\ \E i \in 1..Len(events) :
       /\ ClaimedKept(events[i])
       /\ events[i].afk \/ events[i].duration = 5
  /\ \E i \in 1..Len(events) : ~ClaimedKept(events[i])
  /\ active_events # << >>

\* the input is empty, or none of its events is one the Event Filter keeps
NothingToAnalyze == \A i \in 1..Len(events) : ~ClaimedKept(events[i])

\* C22: analyze() on an empty input, or on an input of which no event
\* survives the filter, returns at once with an empty timeline_blocks and
\* total_active_time 0: the only step it takes is the early return, and no
\* block is ever built
C22_EarlyReturn ==
  /\ [][(pc = "analyze" /\ NothingToAnalyze) =>
          /\ pc' = "done"
          /\ timeline_blocks' = << >>
          /\ total_active_time' = 0]_vars
  /\ []((pc = "done" /\ NothingToAnalyze) =>
          /\ timeline_blocks = << >>
          /\ total_active_time = 0
          /\ blocks = << >>)

\* C22 witness: analyze() has returned on a non-empty input of which the
\* filter kept nothing
C22_Witness ==
  /\ pc = "done"
  /\ events # << >>
  /\ NothingToAnalyze
  /\ timeline_blocks = << >>
  /\ total_active_time = 0

\* C23 (as claimed): when analyze() returns, every raw activity block still
\* has as main_activity.duration the in-slot duration the Block Analyzer
\* computed for its own slot
C23_RawBlocksUnchanged ==
  (pc = "done" /\ run = 1) =>
    \A j \in 1..Len(blocks) :
      ~blocks[j].is_afk =>
        blocks[j].main_activity.duration = InSlotMainDuration(blocks[j].start_time_utc)

\* length of the intersection of [event_start, event_end) with [from, to)
IntersectionLength(event, from, to) ==
  Max(0, Min(event.timestamp + event.duration, to) - Max(event.timestamp, from))

\* the block_duration _get_events_in_block gives the event in the slot
\* starting at t; 0 when the event is not among the slot's events
FragmentDuration(event, t) ==
  LET found == get_events_in_block(t, t + block_duration, <<event>>)
  IN IF found = << >> THEN 0 ELSE found[1].block_duration

\* the slots of the day window in order
SlotSequence ==
  [k \in 1..((day_end - DayStart) \div block_duration) |->
     DayStart + (k - 1) * block_duration]

\* C25: the block_duration of an event in a slot is the length of its
\* intersection with the left-closed, right-open slot, an event without
\* intersection is not among the slot's events, and the block_durations of an
\* event over all slots add up to its intersection with the 06:00-21:00 window
C25_FragmentConservation ==
  (pc = "merge" /\ run = 1) =>
    \A i \in 1..Len(active_events) :
      LET event == active_events[i]
      IN /\ \A k \in 1..Len(SlotSequence) :
              /\ FragmentDuration(event, SlotSequence[k]) =
                   IntersectionLength(event, SlotSequence[k],
                                      SlotSequence[k] + block_duration)
              /\ (get_events_in_block(SlotSequence[k], SlotSequence[k] + block_duration,
                                      <<event>>) # << >>)
                   <=> (IntersectionLength(event, SlotSequence[k],
                                           SlotSequence[k] + block_duration) > 0)
         /\ SumSeq([k \in 1..Len(SlotSequence) |-> FragmentDuration(event, SlotSequence[k])])
              = IntersectionLength(event, DayStart, day_end)

\* C25 witness: the segmenter has run over an event that starts before 06:00
\* or ends after 21:00, spans several slots, and starts or ends exactly on a
\* slot boundary inside the window
C25_Witness ==
  /\ pc = "merge"
  /\ run = 1
  /\ \E i \in 1..Len(active_events) :
       LET event == active_events[i]
       IN /\ event.timestamp < DayStart \/ event.timestamp + event.duration > day_end
          /\ IntersectionLength(event, DayStart, day_end) > block_duration
          /\ \E k \in 1..Len(SlotSequence) :
               \/ event.timestamp = SlotSequence[k]
               \/ event.timestamp + event.duration = SlotSequence[k]

\* C24 (as claimed): total_active_time is the sum of the durations of the
\* non-AFK blocks of timeline_blocks
C24_TotalExcludesAfk ==
  (pc = "done" /\ run = 1) =>
    total_active_time =
      SumSeq([i \in 1..Len(timeline_blocks) |->
                IF timeline_blocks[i].is_afk THEN 0 ELSE timeline_blocks[i].duration])

\* C26 (as claimed): in the raw sequence returned by _create_time_blocks every
\* block starts at or after the end of the block before it
C26_RawBlocksOrdered ==
  (pc = "merge" /\ run = 1) =>
    \A i \in 1..(Len(blocks) - 1) : blocks[i + 1].start_time >= blocks[i].end_time

\* C27 (as claimed): every AFK block of timeline_blocks has an idle main
\* activity of the block's full duration at 100%
C27_AfkMainCoversBlock ==
  (pc = "done" /\ run = 1) =>
    \A i \in 1..Len(timeline_blocks) :
      timeline_blocks[i].is_afk =>
        /\ timeline_blocks[i].main_activity.duration = timeline_blocks[i].duration
        /\ timeline_blocks[i].main_activity.percentage = FULL_PERCENT_TENTHS

\* C28 (as claimed): a block of timeline_blocks that carries end_time_utc
\* also carries start_time_utc, and its end_time_utc is the instant its
\* end_time (HH:MM) denotes
C28_EndRepresentationsAgree ==
  (pc = "done" /\ run = 1) =>
    \A i \in 1..Len(timeline_blocks) :
      timeline_blocks[i].end_time_utc # None =>
        /\ timeline_blocks[i].start_time_utc # None
        /\ timeline_blocks[i].end_time_utc = EndInstant(timeline_blocks[i])

\* C29 (as claimed): load_settings on a missing settings file returns the
\* original DEFAULT_SETTINGS values, whatever was loaded before
C29_MissingFileGivesDefaults ==
  (returned.op = "load_settings" /\ ~files[config_path].exists) =>
    returned.settings = INITIAL_DEFAULT_SETTINGS

\* the settings file of the manager in use holds this cache entry
Persisted(file, key, value) ==
  /\ file.exists
  /\ file.readable
  /\ Has(file.content.integrations.asana.cache, key)
  /\ file.content.integrations.asana.cache[key] = value

\* C30: save_settings that finds validation errors returns (False, errors)
\* and leaves every settings file as it was; it returns (True, []) only with
\* the settings written to the file; set_asana_user_gid and set_cached_tasks
\* return True only with their cache entry in the file
C30_SaveValidatesFirst ==
  [][/\ returned'.op = "save_settings" =>
          /\ validate_settings(returned'.settings) # << >> =>
               /\ returned'.success = FALSE
               /\ returned'.errors = validate_settings(returned'.settings)
               /\ files' = files
          /\ returned'.success =>
               /\ returned'.errors = << >>
               /\ files'[config_path'] = StoredFile(returned'.settings)
     /\ (returned'.op = "set_asana_user_gid" /\ returned'.success) =>
          Persisted(files'[config_path'], "user_gid", returned'.gid)
     /\ (returned'.op = "set_cached_tasks" /\ returned'.success) =>
          /\ Persisted(files'[config_path'], "tasks_cache",
                       files'[config_path'].content.integrations.asana.cache.tasks_cache)
          /\ Has(files'[config_path'].content.integrations.asana.cache.tasks_cache,
                 returned'.email)
          /\ files'[config_path'].content.integrations.asana.cache
               .tasks_cache[returned'.email].tasks = returned'.tasks
    ]_vars

\* a save_settings call was refused over a stored file
C30_Witness ==
  /\ returned.op = "save_settings"
  /\ validate_settings(returned.settings) # << >>
  /\ ~returned.success
  /\ files[config_path].exists
  /\ files[config_path].readable

====
